---- MODULE Spec2Model ----
(***************************************************************************)
(* The zkSync mempool (core/bin/zksync_core/src/mempool.rs): the shared    *)
(* MempoolState behind one async mutex, the Balancer that deals admission  *)
(* requests round-robin to the MempoolTransactionsHandler tasks, and the   *)
(* MempoolBlocks task that applies nonce updates and proposes blocks.      *)
(*                                                                         *)
(* A step of the model is what a task does between two suspension points   *)
(* (.await).  A critical section that has no .await inside it is one step, *)
(* enabled only while the mutex is free.                                   *)
(***************************************************************************)
EXTENDS Integers, Sequences, FiniteSets, TLC

(***************************************************************************)
(* Bounds of the model and configuration of the program.                   *)
(***************************************************************************)
\* requests the API, the block proposer and the committer send in a run, on
\* both inbound channels together
MaxTraffic == 3
\* priority operations the watcher returns for one block
MaxPriorityOps == 1
\* the largest number of handlers a Balancer is built with, where it varies
MaxHandlers == 3
\* restarts of the node in a run, where it is restarted
MaxRestarts == 1
\* priority operations in an answer of a watcher that breaks its obligation
MaxOverrunOps == 3

\* number_of_mempool_transaction_handlers
NumberOfHandlers == 2
\* channel_capacity
ChannelCapacity == 1
\* max_block_size_chunks: the maximum of available_block_chunk_sizes
MaxBlockSizeChunks == 12
\* max_number_of_withdrawals_per_block
MaxNumberOfWithdrawalsPerBlock == 1

\* TransferOp::CHUNKS, TransferToNewOp::CHUNKS, and min_chunks() of a withdrawal
TransferOpCHUNKS == 2
TransferToNewOpCHUNKS == 6
WithdrawOpCHUNKS == 6
\* chunks() of a priority operation (a deposit)
DepositOpCHUNKS == 6

Handlers == 0 .. (NumberOfHandlers - 1)
Addresses == {"A", "B"}
AccountIds == {1, 2, 3}

(***************************************************************************)
(* Values.                                                                 *)
(***************************************************************************)
RECURSIVE SumSeq(_)
SumSeq(s) == IF s = <<>> THEN 0 ELSE Head(s) + SumSeq(Tail(s))

Transfer(from, to, n) == [kind |-> "Transfer", from |-> from, to |-> to, nonce |-> n]
Withdraw(from, n) == [kind |-> "Withdraw", from |-> from, to |-> from, nonce |-> n]

\* The transactions and batches the API submits.
TxPool == {Transfer("A", "B", 0), Transfer("A", "B", 1)}
BatchPool ==
    { <<>>,
      <<Transfer("A", "B", 0), Transfer("A", "B", 1), Withdraw("A", 1)>>,
      <<Withdraw("A", 1), Withdraw("A", 1)>> }

\* SignedTxVariant: Tx(tx) or Batch(SignedTxsBatch).  rid is the identity of the
\* entry (the hash of its bytes): the serial number of the request that brought it.
VariantTx(tx, rid) == [type |-> "Tx", txs |-> <<tx>>, batch_id |-> 0, rid |-> rid]
VariantBatch(txs, batch_id, rid) ==
    [type |-> "Batch", txs |-> txs, batch_id |-> batch_id, rid |-> rid]

\* AccountUpdate
Create(id, address, n) == [kind |-> "Create", id |-> id, address |-> address, nonce |-> n]
Delete(id, address) == [kind |-> "Delete", id |-> id, address |-> address, nonce |-> 0]
UpdateBalance(id, n) == [kind |-> "UpdateBalance", id |-> id, address |-> "-", nonce |-> n]
ChangePubKeyHash(id, n) ==
    [kind |-> "ChangePubKeyHash", id |-> id, address |-> "-", nonce |-> n]

\* The AccountUpdates lists the committer sends.
UpdateLists ==
    { <<Create(2, "B", 0)>>, <<Delete(2, "B")>>,
      <<UpdateBalance(1, 2)>>, <<ChangePubKeyHash(2, 1)>>,
      <<Delete(2, "B"), Create(2, "B", 0)>> }

RECURSIVE SeqsUpTo(_, _)
SeqsUpTo(S, n) ==
    IF n = 0 THEN {<<>>}
    ELSE LET shorter == SeqsUpTo(S, n - 1)
         IN  shorter \cup {Append(s, x) : s \in {t \in shorter : Len(t) = n - 1}, x \in S}

\* The answers of the priority-op watcher: it is obliged to return operations
\* whose chunks sum to at most max_chunks.
WatcherAnswers ==
    {ops \in SeqsUpTo({DepositOpCHUNKS}, MaxPriorityOps) : SumSeq(ops) <= MaxBlockSizeChunks}

(***************************************************************************)
(* MempoolState: the pure methods, over the nonce map and the ready queue. *)
(***************************************************************************)
min_chunks(tx) == IF tx.kind = "Withdraw" THEN WithdrawOpCHUNKS ELSE TransferOpCHUNKS

chunks_for_tx(nonces, tx) ==
    IF tx.kind = "Transfer"
    THEN IF tx.to \in DOMAIN nonces THEN TransferOpCHUNKS ELSE TransferToNewOpCHUNKS
    ELSE min_chunks(tx)

chunks_for_batch(nonces, txs) ==
    SumSeq([i \in 1 .. Len(txs) |-> chunks_for_tx(nonces, txs[i])])

required_chunks(nonces, element) ==
    IF element.type = "Tx"
    THEN chunks_for_tx(nonces, element.txs[1])
    ELSE chunks_for_batch(nonces, element.txs)

nonce(nonces, address) == IF address \in DOMAIN nonces THEN nonces[address] ELSE 0

\* add_tx without the comparison with the recorded nonce.
state_add_tx_unchecked(nonces, ready, tx, rid) ==
    [result |-> "Ok", ready_txs |-> Append(ready, VariantTx(tx, rid))]

\* add_tx putting the transaction at the front of the ready queue.
state_add_tx_front(nonces, ready, tx, rid) ==
    IF tx.nonce >= nonce(nonces, tx.from)
    THEN [result |-> "Ok", ready_txs |-> <<VariantTx(tx, rid)>> \o ready]
    ELSE [result |-> "NonceMismatch", ready_txs |-> ready]

\* MempoolState::add_tx: the result and the ready queue it leaves.
state_add_tx(nonces, ready, tx, rid) ==
    IF tx.nonce >= nonce(nonces, tx.from)
    THEN [result |-> "Ok", ready_txs |-> Append(ready, VariantTx(tx, rid))]
    ELSE [result |-> "NonceMismatch", ready_txs |-> ready]

\* MempoolState::add_batch.  assert_ne!(batch.batch_id, 0) aborts the task.
state_add_batch(nonces, ready, batch) ==
    IF batch.batch_id = 0
    THEN [result |-> "panic", ready_txs |-> ready]
    ELSE IF \E i \in 1 .. Len(batch.txs) :
                batch.txs[i].nonce < nonce(nonces, batch.txs[i].from)
    THEN [result |-> "NonceMismatch", ready_txs |-> ready]
    ELSE [result |-> "Ok", ready_txs |-> Append(ready, batch)]

\* The for loop of restore_from_db over the committed accounts, and load_txs.
restore_from_db(accounts, rows) ==
    [account_ids |-> [id \in DOMAIN accounts |-> accounts[id].address],
     account_nonces |->
        [a \in {accounts[id].address : id \in DOMAIN accounts} |->
            accounts[CHOOSE id \in DOMAIN accounts : accounts[id].address = a].nonce],
     ready_txs |-> rows]

\* mempool_schema().collect_garbage(): the rows of executed transactions are
\* removed, and the stale ones (never admitted) when drop_stale.
collect_garbage(rows, executed, stale, drop_stale) ==
    SelectSeq(rows, LAMBDA row : /\ row.rid \notin executed
                                 /\ ~(drop_stale /\ row.rid \in stale))

\* load_txs handing the rows back last first.
load_txs_reversed(rows) == [i \in 1 .. Len(rows) |-> rows[Len(rows) + 1 - i]]

\* mempool_schema().load_txs(): the rows in the order the storage holds them.
load_txs(rows) == rows

\* HashMap::insert and HashMap::remove
MapInsert(m, k, v) == [x \in DOMAIN m \cup {k} |-> IF x = k THEN v ELSE m[x]]
MapRemove(m, k) == [x \in DOMAIN m \ {k} |-> m[x]]

\* What the arm of one AccountUpdate is written to do to the two maps.
apply_update(st, u) ==
    IF u.kind = "Create"
    THEN [ids |-> MapInsert(st.ids, u.id, u.address),
          nonces |-> MapInsert(st.nonces, u.address, u.nonce)]
    ELSE IF u.kind = "Delete"
    THEN [ids |-> MapRemove(st.ids, u.id), nonces |-> MapRemove(st.nonces, u.address)]
    ELSE IF u.id \in DOMAIN st.ids /\ st.ids[u.id] \in DOMAIN st.nonces
    THEN [st EXCEPT !.nonces[st.ids[u.id]] = u.nonce]
    ELSE st

\* The for loop over the updates of one UpdateNonces.
RECURSIVE apply_updates(_, _)
apply_updates(st, updates) ==
    IF updates = <<>> THEN st
    ELSE apply_updates(apply_update(st, Head(updates)), Tail(updates))

\* prepare_tx_for_block with the test on the budget weakened: an element is
\* taken whenever any chunk is left.
RECURSIVE prepare_loop_any_room(_, _, _, _)
prepare_loop_any_room(nonces, ready, chunks_left, txs_for_commit) ==
    IF ready = <<>>
    THEN [chunks_left |-> chunks_left, txs |-> txs_for_commit, ready_txs |-> ready]
    ELSE LET tx == Head(ready)
             chunks == required_chunks(nonces, tx)
         IN  IF chunks_left > 0
             THEN prepare_loop_any_room(nonces, Tail(ready), chunks_left - chunks,
                                        Append(txs_for_commit, tx))
             ELSE [chunks_left |-> chunks_left, txs |-> txs_for_commit,
                   ready_txs |-> ready]

\* prepare_tx_for_block that fills the block with the first member of a batch
\* that does not fit as a whole, and leaves the other members in the queue.
RECURSIVE prepare_loop_split(_, _, _, _)
prepare_loop_split(nonces, ready, chunks_left, txs_for_commit) ==
    IF ready = <<>>
    THEN [chunks_left |-> chunks_left, txs |-> txs_for_commit, ready_txs |-> ready]
    ELSE LET tx == Head(ready)
             chunks == required_chunks(nonces, tx)
         IN  IF chunks_left >= chunks
             THEN prepare_loop_split(nonces, Tail(ready), chunks_left - chunks,
                                     Append(txs_for_commit, tx))
             ELSE IF /\ tx.type = "Batch"
                     /\ Len(tx.txs) > 1
                     /\ chunks_left >= chunks_for_tx(nonces, tx.txs[1])
             THEN [chunks_left |-> chunks_left - chunks_for_tx(nonces, tx.txs[1]),
                   txs |-> Append(txs_for_commit, [tx EXCEPT !.txs = <<tx.txs[1]>>]),
                   ready_txs |-> <<[tx EXCEPT !.txs = Tail(tx.txs)]>> \o Tail(ready)]
             ELSE [chunks_left |-> chunks_left, txs |-> txs_for_commit,
                   ready_txs |-> ready]

\* prepare_tx_for_block that steps over an element that does not fit and goes on
\* with those behind it.
RECURSIVE prepare_loop_skip(_, _, _, _)
prepare_loop_skip(nonces, ready, chunks_left, txs_for_commit) ==
    IF ready = <<>>
    THEN [chunks_left |-> chunks_left, txs |-> txs_for_commit, ready_txs |-> ready]
    ELSE LET tx == Head(ready)
             chunks == required_chunks(nonces, tx)
         IN  IF chunks_left >= chunks
             THEN prepare_loop_skip(nonces, Tail(ready), chunks_left - chunks,
                                    Append(txs_for_commit, tx))
             ELSE LET r == prepare_loop_skip(nonces, Tail(ready), chunks_left,
                                             txs_for_commit)
                  IN  [r EXCEPT !.ready_txs = <<tx>> \o r.ready_txs]

\* prepare_tx_for_block without the push_front of the element that does not
\* fit: the element is popped and dropped.
RECURSIVE prepare_loop_drops_misfit(_, _, _, _)
prepare_loop_drops_misfit(nonces, ready, chunks_left, txs_for_commit) ==
    IF ready = <<>>
    THEN [chunks_left |-> chunks_left, txs |-> txs_for_commit, ready_txs |-> ready]
    ELSE LET tx == Head(ready)
             chunks == required_chunks(nonces, tx)
         IN  IF chunks_left >= chunks
             THEN prepare_loop_drops_misfit(nonces, Tail(ready), chunks_left - chunks,
                                            Append(txs_for_commit, tx))
             ELSE [chunks_left |-> chunks_left, txs |-> txs_for_commit,
                   ready_txs |-> Tail(ready)]

\* usize: a value of 2^63 or more is written as the negative number that is
\* congruent to it modulo 2^64, so that v - 2^64 stands for v.  a >= b on usize.
usize_ge(a, b) ==
    IF (a < 0) = (b < 0) THEN a >= b ELSE a < 0

\* The loop of prepare_tx_for_block: pop the front while it fits.
RECURSIVE prepare_loop(_, _, _, _)
prepare_loop(nonces, ready, chunks_left, txs_for_commit) ==
    IF ready = <<>>
    THEN [chunks_left |-> chunks_left, txs |-> txs_for_commit, ready_txs |-> ready]
    ELSE LET tx == Head(ready)
             chunks == required_chunks(nonces, tx)
         IN  IF usize_ge(chunks_left, chunks)
             THEN prepare_loop(nonces, Tail(ready), chunks_left - chunks,
                               Append(txs_for_commit, tx))
             ELSE [chunks_left |-> chunks_left, txs |-> txs_for_commit,
                   ready_txs |-> ready]

\* select_priority_ops: chunks left after the watcher's operations.
priority_chunks_left(priority_ops) == MaxBlockSizeChunks - SumSeq(priority_ops)

(***************************************************************************)
(* State.                                                                  *)
(***************************************************************************)
VARIABLES
    account_nonces,  \* MempoolState.account_nonces: address -> nonce
    account_ids,     \* MempoolState.account_ids: account id -> address
    ready_txs,       \* MempoolState.ready_txs
    mutex,           \* the task that holds the lock of mempool_state, or "free"
    db,              \* the committed rows of the mempool schema, in commit order
    tx_requests,     \* the admission channel the Balancer reads
    requests_sent,   \* number of admission requests the API has sent
    replies,         \* what each request's oneshot reply channel carries
    balancer,        \* Balancer::run: its position, the request in hand, the cycle,
                     \* and the record of the sends it has made
    channels,        \* the channel of each handler
    handler,         \* each MempoolTransactionsHandler: position and request
    block_requests,  \* the channel MempoolBlocks reads
    block_sent,      \* number of requests sent into block_requests
    blocks_task,     \* MempoolBlocks::run: position and locals
    proposed,        \* the ProposedBlocks sent back, in order
    restarts         \* number of times the node was stopped and started again

mem == <<account_nonces, account_ids, ready_txs>>
vars == <<account_nonces, account_ids, ready_txs, mutex, db, tx_requests, requests_sent,
          replies, balancer, channels, handler, block_requests, block_sent,
          blocks_task, proposed, restarts>>

NoRequest == [type |-> "None", txs |-> <<>>, rid |-> 0]
Idle == [pc |-> "next", req |-> NoRequest, batch_id |-> 0]
BlocksIdle ==
    [pc |-> "next", updates |-> <<>>, chunks_left |-> 0, priority_ops |-> <<>>,
     expect |-> <<>>]

\* The positions of a handler: awaiting a storage operation, and before the
\* critical section that adds to the state.
StoragePcs ==
    {"tx_access_storage", "tx_start_transaction", "tx_insert", "tx_commit",
     "batch_access_storage", "batch_start_transaction", "batch_insert", "batch_commit"}
CommitPcs == {"tx_commit", "batch_commit"}
AddPcs == {"tx_lock", "batch_lock"}

\* Balancer::run before the first request: the cycle of channel indexes is at 0.
BalancerIdle ==
    [pc |-> "next", req |-> NoRequest, target |-> 0, channel_index |-> 0, sent_to |-> <<>>]

\* The committed account state a node may start from.
InitAccounts ==
    { [id \in {1} |-> [address |-> "A", nonce |-> 1]],
      [id \in {2} |-> [address |-> "B", nonce |-> 1]] }

\* run_mempool_tasks: the state restored from the database, the channels empty,
\* every task at the head of its loop.
Init ==
    /\ \E accounts \in InitAccounts :
         LET st == restore_from_db(accounts, <<>>)
         IN  /\ account_nonces = st.account_nonces
             /\ account_ids = st.account_ids
             /\ ready_txs = st.ready_txs
    /\ mutex = "free"
    /\ db = <<>>
    /\ tx_requests = <<>>
    /\ requests_sent = 0
    /\ replies = [r \in {} |-> "Ok"]
    /\ balancer = BalancerIdle
    /\ channels = [h \in Handlers |-> <<>>]
    /\ handler = [h \in Handlers |-> Idle]
    /\ block_requests = <<>>
    /\ block_sent = 0
    /\ blocks_task = BlocksIdle
    /\ proposed = <<>>
    /\ restarts = 0

\* The entries (by rid) of a sequence of variants, and of the proposed blocks.
Rids(variants) == {variants[i].rid : i \in 1 .. Len(variants)}
ProposedRids == UNION {Rids(proposed[k].txs) : k \in 1 .. Len(proposed)}

\* The requests that have the reply result.
Replied(result) == {rid \in DOMAIN replies : replies[rid] = result}

(***************************************************************************)
(* The environment: the API and the block proposer / committer.            *)
(***************************************************************************)
\* The end of a channel's stream: what its receiver finds behind the last
\* message once every sender is dropped.
TxStreamEnd == [type |-> "Closed", txs |-> <<>>, rid |-> 0]
BlockStreamEnd == [type |-> "Closed", updates |-> <<>>, expect |-> <<>>]
senders_dropped(channel) == channel # <<>> /\ channel[Len(channel)].type = "Closed"

\* The serial number of the next admission request.
NextRid == requests_sent + 1

\* The API sends NewTx(tx, resp) on the admission channel.
SubmitTx ==
    /\ requests_sent + block_sent < MaxTraffic
    /\ ~senders_dropped(tx_requests)
    /\ Len(tx_requests) < ChannelCapacity
    /\ \E tx \in TxPool :
         tx_requests' = Append(tx_requests, [type |-> "NewTx", txs |-> <<tx>>,
                                             rid |-> NextRid])
    /\ requests_sent' = requests_sent + 1
    /\ UNCHANGED <<restarts, mem, mutex, db, replies, balancer, channels, handler,
                   block_requests, block_sent, blocks_task, proposed>>

\* The API sends NewTxsBatch(txs, eth_signature, resp).
SubmitBatch ==
    /\ requests_sent + block_sent < MaxTraffic
    /\ ~senders_dropped(tx_requests)
    /\ Len(tx_requests) < ChannelCapacity
    /\ \E txs \in BatchPool :
         tx_requests' = Append(tx_requests, [type |-> "NewTxsBatch", txs |-> txs,
                                             rid |-> NextRid])
    /\ requests_sent' = requests_sent + 1
    /\ UNCHANGED <<restarts, mem, mutex, db, replies, balancer, channels, handler,
                   block_requests, block_sent, blocks_task, proposed>>

\* The committer sends UpdateNonces(updates).
SubmitUpdateNonces ==
    /\ requests_sent + block_sent < MaxTraffic
    /\ ~senders_dropped(block_requests)
    /\ Len(block_requests) < ChannelCapacity
    /\ \E updates \in UpdateLists :
         block_requests' =
            Append(block_requests, [type |-> "UpdateNonces", updates |-> updates,
                                    expect |-> <<>>])
    /\ block_sent' = block_sent + 1
    /\ UNCHANGED <<restarts, mem, mutex, db, tx_requests, requests_sent, replies, balancer, channels,
                   handler, blocks_task, proposed>>

\* The updates sent to MempoolBlocks that it has not applied: the rest of the
\* list it is working on, then the lists in its channel.
RECURSIVE QueuedUpdates(_)
QueuedUpdates(requests) ==
    IF requests = <<>> THEN <<>>
    ELSE Head(requests).updates \o QueuedUpdates(Tail(requests))
PendingUpdates == blocks_task.updates \o QueuedUpdates(block_requests)

\* The maps as they are once every update sent so far is applied.
ExpectedMaps ==
    apply_updates([ids |-> account_ids, nonces |-> account_nonces], PendingUpdates)

\* The block proposer sends GetBlock(GetBlockRequest).  The request is noted
\* with the maps its sender counts on: those of the updates sent before it.
SubmitGetBlock ==
    /\ requests_sent + block_sent < MaxTraffic
    /\ ~senders_dropped(block_requests)
    /\ Len(block_requests) < ChannelCapacity
    /\ block_requests' = Append(block_requests, [type |-> "GetBlock", updates |-> <<>>,
                                                 expect |-> ExpectedMaps])
    /\ block_sent' = block_sent + 1
    /\ UNCHANGED <<restarts, mem, mutex, db, tx_requests, requests_sent, replies, balancer, channels,
                   handler, blocks_task, proposed>>

(***************************************************************************)
(* Balancer::run                                                           *)
(***************************************************************************)
\* self.channels.len()
channels_len == Cardinality(DOMAIN channels)

\* The receiver of a handler's channel is dropped when its task has ended.
receiver_dropped(h) == handler[h].pc \in {"stopped", "panicked"}

\* self.requests.next().await yields a request; channel_indexes.next() picks
\* the channel.
BalancerNext ==
    /\ balancer.pc = "next"
    /\ tx_requests # <<>>
    /\ Head(tx_requests).type # "Closed"
    /\ balancer' = [balancer EXCEPT
                       !.pc = "send", !.req = Head(tx_requests),
                       !.target = balancer.channel_index,
                       !.channel_index = (balancer.channel_index + 1) % channels_len]
    /\ tx_requests' = Tail(tx_requests)
    /\ UNCHANGED <<restarts, mem, mutex, db, requests_sent, replies, channels, handler,
                   block_requests, block_sent, blocks_task, proposed>>

\* What Balancer::run has done with a request: the channel it sent it on, and
\* whether the send succeeded.
Sent(delivered) ==
    Append(balancer.sent_to,
           [rid |-> balancer.req.rid, to |-> balancer.target, delivered |-> delivered])

\* self.channels[channel_index].send(request).await: waits for room.
BalancerSend ==
    /\ balancer.pc = "send"
    /\ ~receiver_dropped(balancer.target)
    /\ Len(channels[balancer.target]) < ChannelCapacity
    /\ channels' = [channels EXCEPT ![balancer.target] = Append(@, balancer.req)]
    /\ balancer' = [balancer EXCEPT !.pc = "next", !.req = NoRequest,
                                    !.sent_to = Sent(TRUE)]
    /\ UNCHANGED <<restarts, mem, mutex, db, tx_requests, requests_sent, replies, handler,
                   block_requests, block_sent, blocks_task, proposed>>

\* send with the cycle of channel indexes set back when the send fails, so that
\* the next request is offered to the same channel.
BalancerSendFailedRewinds ==
    /\ balancer.pc = "send"
    /\ receiver_dropped(balancer.target)
    /\ balancer' = [balancer EXCEPT !.pc = "next", !.req = NoRequest,
                                    !.channel_index = balancer.target,
                                    !.sent_to = Sent(FALSE)]
    /\ UNCHANGED <<restarts, mem, mutex, db, tx_requests, requests_sent, replies, channels, handler,
                   block_requests, block_sent, blocks_task, proposed>>

\* send(request).await on a channel whose receiver was dropped returns an error,
\* unwrap_or_default() discards it together with the request, and the loop goes on.
BalancerSendFailed ==
    /\ balancer.pc = "send"
    /\ receiver_dropped(balancer.target)
    /\ balancer' = [balancer EXCEPT !.pc = "next", !.req = NoRequest,
                                    !.sent_to = Sent(FALSE)]
    /\ UNCHANGED <<restarts, mem, mutex, db, tx_requests, requests_sent, replies, channels, handler,
                   block_requests, block_sent, blocks_task, proposed>>

(***************************************************************************)
(* MempoolTransactionsHandler                                              *)
(***************************************************************************)
\* resp.send(tx_add_result): the handler returns to the head of its loop.
Reply(h, result) ==
    /\ replies' = MapInsert(replies, handler[h].req.rid, result)
    /\ handler' = [handler EXCEPT ![h] = Idle]

\* run: self.requests.next().await yields a request, add_tx or add_batch starts.
HandlerNext(h) ==
    /\ handler[h].pc = "next"
    /\ channels[h] # <<>>
    /\ Head(channels[h]).type # "Closed"
    /\ handler' = [handler EXCEPT ![h] =
                     [pc |-> IF Head(channels[h]).type = "NewTx"
                             THEN "tx_access_storage" ELSE "batch_access_storage",
                      req |-> Head(channels[h]), batch_id |-> 0]]
    /\ channels' = [channels EXCEPT ![h] = Tail(@)]
    /\ UNCHANGED <<restarts, mem, mutex, db, tx_requests, requests_sent, replies, balancer,
                   block_requests, block_sent, blocks_task, proposed>>

\* add_tx: self.db_pool.access_storage().await
AddTxAccessStorage(h) ==
    /\ handler[h].pc = "tx_access_storage"
    /\ \E ok \in BOOLEAN :
         IF ok
         THEN /\ handler' = [handler EXCEPT ![h].pc = "tx_start_transaction"]
              /\ UNCHANGED replies
         ELSE Reply(h, "DbError")
    /\ UNCHANGED <<restarts, mem, mutex, db, tx_requests, requests_sent, balancer, channels,
                   block_requests, block_sent, blocks_task, proposed>>

\* add_tx: storage.start_transaction().await
AddTxStartTransaction(h) ==
    /\ handler[h].pc = "tx_start_transaction"
    /\ \E ok \in BOOLEAN :
         IF ok
         THEN /\ handler' = [handler EXCEPT ![h].pc = "tx_insert"]
              /\ UNCHANGED replies
         ELSE Reply(h, "DbError")
    /\ UNCHANGED <<restarts, mem, mutex, db, tx_requests, requests_sent, balancer, channels,
                   block_requests, block_sent, blocks_task, proposed>>

\* add_tx: mempool_schema().insert_tx(&tx).await, inside the transaction
AddTxInsert(h) ==
    /\ handler[h].pc = "tx_insert"
    /\ \E ok \in BOOLEAN :
         IF ok
         THEN /\ handler' = [handler EXCEPT ![h].pc = "tx_commit"]
              /\ UNCHANGED replies
         ELSE Reply(h, "DbError")
    /\ UNCHANGED <<restarts, mem, mutex, db, tx_requests, requests_sent, balancer, channels,
                   block_requests, block_sent, blocks_task, proposed>>

\* add_tx with the result of commit() ignored: add_tx of the state follows a
\* commit that failed.
AddTxCommitUnchecked(h) ==
    /\ handler[h].pc = "tx_commit"
    /\ \E ok \in BOOLEAN :
         /\ db' = IF ok
                  THEN Append(db, VariantTx(handler[h].req.txs[1], handler[h].req.rid))
                  ELSE db
         /\ handler' = [handler EXCEPT ![h].pc = "tx_lock"]
         /\ UNCHANGED replies
    /\ UNCHANGED <<restarts, mem, mutex, tx_requests, requests_sent, balancer, channels,
                   block_requests, block_sent, blocks_task, proposed>>

\* add_tx: transaction.commit().await makes the row durable.
AddTxCommit(h) ==
    /\ handler[h].pc = "tx_commit"
    /\ \E ok \in BOOLEAN :
         IF ok
         THEN /\ db' = Append(db, VariantTx(handler[h].req.txs[1], handler[h].req.rid))
              /\ handler' = [handler EXCEPT ![h].pc = "tx_lock"]
              /\ UNCHANGED replies
         ELSE /\ Reply(h, "DbError")
              /\ UNCHANGED db
    /\ UNCHANGED <<restarts, mem, mutex, tx_requests, requests_sent, balancer, channels,
                   block_requests, block_sent, blocks_task, proposed>>

\* add_tx: self.mempool_state.lock().await.add_tx(tx), and the reply.
AddTxLock(h) ==
    /\ handler[h].pc = "tx_lock"
    /\ mutex = "free"
    /\ LET r == state_add_tx(account_nonces, ready_txs, handler[h].req.txs[1],
                             handler[h].req.rid)
       IN  /\ ready_txs' = r.ready_txs
           /\ Reply(h, r.result)
    /\ UNCHANGED <<restarts, account_nonces, account_ids, mutex, db, tx_requests, requests_sent,
                   balancer, channels, block_requests, block_sent, blocks_task,
                   proposed>>

\* The loop of add_batch that counts tx.tx.is_withdraw().
number_of_withdrawals(txs) ==
    Cardinality({i \in 1 .. Len(txs) : txs[i].kind = "Withdraw"})

\* The checks of add_batch without the one on chunks_for_batch.
batch_check_no_size(nonces, txs) ==
    IF number_of_withdrawals(txs) > MaxNumberOfWithdrawalsPerBlock
    THEN "BatchWithdrawalsOverload"
    ELSE "pass"

\* The checks of add_batch with the count of withdrawals compared by >=, so
\* that a batch with exactly the permitted number is turned away.
batch_check_withdrawals_ge(nonces, txs) ==
    IF chunks_for_batch(nonces, txs) > MaxBlockSizeChunks THEN "BatchTooBig"
    ELSE IF number_of_withdrawals(txs) >= MaxNumberOfWithdrawalsPerBlock
    THEN "BatchWithdrawalsOverload"
    ELSE "pass"

\* What add_batch decides before it starts the storage transaction.
batch_check(nonces, txs) ==
    IF chunks_for_batch(nonces, txs) > MaxBlockSizeChunks THEN "BatchTooBig"
    ELSE IF number_of_withdrawals(txs) > MaxNumberOfWithdrawalsPerBlock
    THEN "BatchWithdrawalsOverload"
    ELSE "pass"

\* mempool_schema().insert_batch returns the id the storage gives the batch: a
\* fresh positive number, here the serial number of the request.
insert_batch(req) == req.rid

\* add_batch: self.db_pool.access_storage().await
AddBatchAccessStorage(h) ==
    /\ handler[h].pc = "batch_access_storage"
    /\ \E ok \in BOOLEAN :
         IF ok
         THEN /\ handler' = [handler EXCEPT ![h].pc = "batch_check"]
              /\ UNCHANGED replies
         ELSE Reply(h, "DbError")
    /\ UNCHANGED <<restarts, mem, mutex, db, tx_requests, requests_sent, balancer, channels,
                   block_requests, block_sent, blocks_task, proposed>>

\* add_batch: chunks_for_batch under the lock, then the count of withdrawals.
AddBatchCheck(h) ==
    /\ handler[h].pc = "batch_check"
    /\ mutex = "free"
    /\ LET verdict == batch_check(account_nonces, handler[h].req.txs)
       IN  IF verdict = "pass"
           THEN /\ handler' = [handler EXCEPT ![h].pc = "batch_start_transaction"]
                /\ UNCHANGED replies
           ELSE Reply(h, verdict)
    /\ UNCHANGED <<restarts, mem, mutex, db, tx_requests, requests_sent, balancer, channels,
                   block_requests, block_sent, blocks_task, proposed>>

\* add_batch: storage.start_transaction().await
AddBatchStartTransaction(h) ==
    /\ handler[h].pc = "batch_start_transaction"
    /\ \E ok \in BOOLEAN :
         IF ok
         THEN /\ handler' = [handler EXCEPT ![h].pc = "batch_insert"]
              /\ UNCHANGED replies
         ELSE Reply(h, "DbError")
    /\ UNCHANGED <<restarts, mem, mutex, db, tx_requests, requests_sent, balancer, channels,
                   block_requests, block_sent, blocks_task, proposed>>

\* add_batch: mempool_schema().insert_batch(&batch.txs, eth_signature).await
AddBatchInsert(h) ==
    /\ handler[h].pc = "batch_insert"
    /\ \E ok \in BOOLEAN :
         IF ok
         THEN /\ handler' = [handler EXCEPT ![h].pc = "batch_commit",
                                            ![h].batch_id = insert_batch(handler[h].req)]
              /\ UNCHANGED replies
         ELSE Reply(h, "DbError")
    /\ UNCHANGED <<restarts, mem, mutex, db, tx_requests, requests_sent, balancer, channels,
                   block_requests, block_sent, blocks_task, proposed>>

\* add_batch with the batch put in the ready queue before the outcome of
\* commit() is known.
AddBatchCommitAddsFirst(h) ==
    /\ handler[h].pc = "batch_commit"
    /\ ready_txs' = Append(ready_txs, VariantBatch(handler[h].req.txs, handler[h].batch_id,
                                                   handler[h].req.rid))
    /\ \E ok \in BOOLEAN :
         IF ok
         THEN /\ db' = Append(db, VariantBatch(handler[h].req.txs, handler[h].batch_id,
                                               handler[h].req.rid))
              /\ Reply(h, "Ok")
         ELSE /\ Reply(h, "DbError")
              /\ UNCHANGED db
    /\ UNCHANGED <<restarts, account_nonces, account_ids, mutex, tx_requests, requests_sent,
                   balancer, channels, block_requests, block_sent, blocks_task,
                   proposed>>

\* add_batch: transaction.commit().await makes the rows durable.
AddBatchCommit(h) ==
    /\ handler[h].pc = "batch_commit"
    /\ \E ok \in BOOLEAN :
         IF ok
         THEN /\ db' = Append(db, VariantBatch(handler[h].req.txs, handler[h].batch_id,
                                               handler[h].req.rid))
              /\ handler' = [handler EXCEPT ![h].pc = "batch_lock"]
              /\ UNCHANGED replies
         ELSE /\ Reply(h, "DbError")
              /\ UNCHANGED db
    /\ UNCHANGED <<restarts, mem, mutex, tx_requests, requests_sent, balancer, channels,
                   block_requests, block_sent, blocks_task, proposed>>

\* add_batch: batch.batch_id = batch_id; self.mempool_state.lock().await
\* .add_batch(batch), and the reply.  A failed assertion ends the task.
AddBatchLock(h) ==
    /\ handler[h].pc = "batch_lock"
    /\ mutex = "free"
    /\ LET r == state_add_batch(account_nonces, ready_txs,
                                VariantBatch(handler[h].req.txs, handler[h].batch_id,
                                             handler[h].req.rid))
       IN  /\ ready_txs' = r.ready_txs
           /\ IF r.result = "panic"
              THEN /\ handler' = [handler EXCEPT ![h].pc = "panicked"]
                   /\ UNCHANGED replies
              ELSE Reply(h, r.result)
    /\ UNCHANGED <<restarts, account_nonces, account_ids, mutex, db, tx_requests, requests_sent,
                   balancer, channels, block_requests, block_sent, blocks_task,
                   proposed>>

\* The task of a handler ends while it awaits (a panic below one of its storage
\* calls, or the runtime dropping the task): the request in hand and its reply
\* channel are dropped, and so is the receiver with what its channel holds.
HandlerAbort(h) ==
    /\ ~receiver_dropped(h)
    /\ handler[h].pc \in StoragePcs \cup {"next"}
    /\ handler' = [handler EXCEPT ![h] = [Idle EXCEPT !.pc = "stopped"]]
    /\ channels' = [channels EXCEPT ![h] = <<>>]
    /\ UNCHANGED <<restarts, mem, mutex, db, tx_requests, requests_sent, replies, balancer,
                   block_requests, block_sent, blocks_task, proposed>>

(***************************************************************************)
(* MempoolBlocks                                                           *)
(***************************************************************************)
\* The for loop over the updates moves on; after the last one the task is back
\* at self.requests.next().
AfterUpdate(rest) ==
    [blocks_task EXCEPT !.updates = rest, !.pc = IF rest = <<>> THEN "next" ELSE "updates"]

\* run taking a GetBlock from the channel as soon as it is there, also between
\* two updates of the list it is applying.
BlocksNextGetBlockFirst ==
    /\ blocks_task.pc \in {"next", "updates"}
    /\ block_requests # <<>>
    /\ blocks_task.pc = "updates" => Head(block_requests).type = "GetBlock"
    /\ blocks_task' =
         IF Head(block_requests).type = "GetBlock"
         THEN [blocks_task EXCEPT !.pc = "select_priority_ops",
                                  !.expect = Head(block_requests).expect]
         ELSE [blocks_task EXCEPT !.pc = "updates",
                                  !.updates = Head(block_requests).updates]
    /\ block_requests' = Tail(block_requests)
    /\ UNCHANGED <<restarts, mem, mutex, db, tx_requests, requests_sent, replies, balancer,
                   channels, handler, block_sent, proposed>>

\* run: self.requests.next().await yields a request.
BlocksNext ==
    /\ blocks_task.pc = "next"
    /\ block_requests # <<>>
    /\ Head(block_requests).type # "Closed"
    /\ blocks_task' =
         IF Head(block_requests).type = "GetBlock"
         THEN [blocks_task EXCEPT !.pc = "select_priority_ops",
                                  !.expect = Head(block_requests).expect]
         ELSE [blocks_task EXCEPT !.pc = "updates",
                                  !.updates = Head(block_requests).updates]
    /\ block_requests' = Tail(block_requests)
    /\ UNCHANGED <<restarts, mem, mutex, db, tx_requests, requests_sent, replies, balancer, channels,
                   handler, block_sent, proposed>>

\* AccountUpdate::Create { address, nonce }
UpdateCreate ==
    /\ blocks_task.pc = "updates"
    /\ Head(blocks_task.updates).kind = "Create"
    /\ mutex = "free"
    /\ LET u == Head(blocks_task.updates)
       IN  /\ account_ids' = MapInsert(account_ids, u.id, u.address)
           /\ account_nonces' = MapInsert(account_nonces, u.address, u.nonce)
    /\ blocks_task' = AfterUpdate(Tail(blocks_task.updates))
    /\ UNCHANGED <<restarts, ready_txs, mutex, db, tx_requests, requests_sent, replies, balancer,
                   channels, handler, block_requests, block_sent, proposed>>

\* The Delete arm clearing the whole nonce map instead of one address.
UpdateDeleteClearsAll ==
    /\ blocks_task.pc = "updates"
    /\ Head(blocks_task.updates).kind = "Delete"
    /\ mutex = "free"
    /\ account_ids' = MapRemove(account_ids, Head(blocks_task.updates).id)
    /\ account_nonces' = <<>>
    /\ blocks_task' = AfterUpdate(Tail(blocks_task.updates))
    /\ UNCHANGED <<restarts, ready_txs, mutex, db, tx_requests, requests_sent, replies, balancer,
                   channels, handler, block_requests, block_sent, proposed>>

\* AccountUpdate::Delete { address, .. }
UpdateDelete ==
    /\ blocks_task.pc = "updates"
    /\ Head(blocks_task.updates).kind = "Delete"
    /\ mutex = "free"
    /\ LET u == Head(blocks_task.updates)
       IN  /\ account_ids' = MapRemove(account_ids, u.id)
           /\ account_nonces' = MapRemove(account_nonces, u.address)
    /\ blocks_task' = AfterUpdate(Tail(blocks_task.updates))
    /\ UNCHANGED <<restarts, ready_txs, mutex, db, tx_requests, requests_sent, replies, balancer,
                   channels, handler, block_requests, block_sent, proposed>>

\* The arms UpdateBalance and ChangePubKeyHash:
\*   if let Some(address) = self.mempool_state.lock().await.account_ids.get(&id) {
\*       if let Some(nonce) = self.mempool_state.lock().await.account_nonces.get_mut(address)
\* The guard of the first lock() is a temporary of the if-let scrutinee and
\* address borrows from it: it lives to the end of the if-let.  With the id
\* absent the guard is dropped and the update is skipped.  With the id present
\* the task awaits the second lock() while it holds the first guard.
lookup_then_relock(u) ==
    IF u.id \in DOMAIN account_ids
    THEN /\ mutex' = "blocks"
         /\ blocks_task' = [blocks_task EXCEPT !.pc = "relock"]
    ELSE /\ mutex' = mutex
         /\ blocks_task' = AfterUpdate(Tail(blocks_task.updates))

\* AccountUpdate::UpdateBalance { new_nonce, .. }
UpdateUpdateBalance ==
    /\ blocks_task.pc = "updates"
    /\ Head(blocks_task.updates).kind = "UpdateBalance"
    /\ mutex = "free"
    /\ lookup_then_relock(Head(blocks_task.updates))
    /\ UNCHANGED <<restarts, mem, db, tx_requests, requests_sent, replies, balancer, channels,
                   handler, block_requests, block_sent, proposed>>

\* AccountUpdate::ChangePubKeyHash { new_nonce, .. }
UpdateChangePubKeyHash ==
    /\ blocks_task.pc = "updates"
    /\ Head(blocks_task.updates).kind = "ChangePubKeyHash"
    /\ mutex = "free"
    /\ lookup_then_relock(Head(blocks_task.updates))
    /\ UNCHANGED <<restarts, mem, db, tx_requests, requests_sent, replies, balancer, channels,
                   handler, block_requests, block_sent, proposed>>

\* select_priority_ops: the request to the watcher and its answer.
SelectPriorityOps ==
    /\ blocks_task.pc = "select_priority_ops"
    /\ \E priority_ops \in WatcherAnswers :
         blocks_task' = [blocks_task EXCEPT
                            !.pc = "prepare_tx_for_block",
                            !.chunks_left = priority_chunks_left(priority_ops),
                            !.priority_ops = priority_ops]
    /\ UNCHANGED <<restarts, mem, mutex, db, tx_requests, requests_sent, replies, balancer, channels,
                   handler, block_requests, block_sent, proposed>>

\* prepare_tx_for_block under the lock, then propose_new_block returns and
\* run sends the ProposedBlock on response_sender.
PrepareTxForBlock ==
    /\ blocks_task.pc = "prepare_tx_for_block"
    /\ mutex = "free"
    /\ LET r == prepare_loop(account_nonces, ready_txs, blocks_task.chunks_left, <<>>)
       IN  /\ ready_txs' = r.ready_txs
           /\ proposed' = Append(proposed, [priority_ops |-> blocks_task.priority_ops,
                                            txs |-> r.txs])
    /\ blocks_task' = BlocksIdle
    /\ UNCHANGED <<restarts, account_nonces, account_ids, mutex, db, tx_requests, requests_sent,
                   replies, balancer, channels, handler, block_requests, block_sent>>

(***************************************************************************)
(* The system.                                                             *)
(***************************************************************************)
Next ==
    \/ SubmitTx
    \/ SubmitBatch
    \/ SubmitUpdateNonces
    \/ SubmitGetBlock
    \/ BalancerNext
    \/ BalancerSend
    \/ \E h \in Handlers : HandlerNext(h)
    \/ \E h \in Handlers : AddTxAccessStorage(h)
    \/ \E h \in Handlers : AddTxStartTransaction(h)
    \/ \E h \in Handlers : AddTxInsert(h)
    \/ \E h \in Handlers : AddTxCommit(h)
    \/ \E h \in Handlers : AddTxLock(h)
    \/ \E h \in Handlers : AddBatchAccessStorage(h)
    \/ \E h \in Handlers : AddBatchCheck(h)
    \/ \E h \in Handlers : AddBatchStartTransaction(h)
    \/ \E h \in Handlers : AddBatchInsert(h)
    \/ \E h \in Handlers : AddBatchCommit(h)
    \/ \E h \in Handlers : AddBatchLock(h)
    \/ BlocksNext
    \/ UpdateCreate
    \/ UpdateDelete
    \/ UpdateUpdateBalance
    \/ UpdateChangePubKeyHash
    \/ SelectPriorityOps
    \/ PrepareTxForBlock

Spec == Init /\ [][Next]_vars

\* The steps of each task.  The executor runs every task that can make a step;
\* the environment is under no obligation to send.
BalancerStep == BalancerNext \/ BalancerSend
HandlerStep(h) ==
    \/ HandlerNext(h)
    \/ AddTxAccessStorage(h) \/ AddTxStartTransaction(h) \/ AddTxInsert(h)
    \/ AddTxCommit(h) \/ AddTxLock(h)
    \/ AddBatchAccessStorage(h) \/ AddBatchCheck(h) \/ AddBatchStartTransaction(h)
    \/ AddBatchInsert(h) \/ AddBatchCommit(h) \/ AddBatchLock(h)
BlocksStep ==
    \/ BlocksNext
    \/ UpdateCreate \/ UpdateDelete \/ UpdateUpdateBalance \/ UpdateChangePubKeyHash
    \/ SelectPriorityOps \/ PrepareTxForBlock

FairSpec ==
    /\ Init
    /\ [][Next]_vars
    /\ WF_vars(BalancerStep)
    /\ \A h \in Handlers : WF_vars(HandlerStep(h))
    /\ WF_vars(BlocksStep)

(***************************************************************************)
(* The Balancer over any number of handlers, some of which end early.      *)
(***************************************************************************)
\* Balancer::new(balanced_item, requests, number_of_items, channel_capacity) for
\* each number_of_items from 1 to MaxHandlers.
DispatchInit ==
    /\ \E accounts \in InitAccounts :
         LET st == restore_from_db(accounts, <<>>)
         IN  /\ account_nonces = st.account_nonces
             /\ account_ids = st.account_ids
             /\ ready_txs = st.ready_txs
    /\ mutex = "free"
    /\ db = <<>>
    /\ tx_requests = <<>>
    /\ requests_sent = 0
    /\ replies = [r \in {} |-> "Ok"]
    /\ balancer = BalancerIdle
    /\ \E number_of_items \in 1 .. MaxHandlers :
         /\ channels = [h \in 0 .. (number_of_items - 1) |-> <<>>]
         /\ handler = [h \in 0 .. (number_of_items - 1) |-> Idle]
    /\ block_requests = <<>>
    /\ block_sent = 0
    /\ blocks_task = BlocksIdle
    /\ proposed = <<>>
    /\ restarts = 0

DispatchNext ==
    \/ SubmitTx
    \/ SubmitBatch
    \/ BalancerNext
    \/ BalancerSend
    \/ BalancerSendFailed
    \/ \E h \in DOMAIN handler : HandlerAbort(h)
    \/ \E h \in DOMAIN handler : HandlerNext(h)
    \/ \E h \in DOMAIN handler : AddTxAccessStorage(h)
    \/ \E h \in DOMAIN handler : AddTxStartTransaction(h)
    \/ \E h \in DOMAIN handler : AddTxInsert(h)
    \/ \E h \in DOMAIN handler : AddTxCommit(h)
    \/ \E h \in DOMAIN handler : AddTxLock(h)
    \/ \E h \in DOMAIN handler : AddBatchAccessStorage(h)
    \/ \E h \in DOMAIN handler : AddBatchCheck(h)
    \/ \E h \in DOMAIN handler : AddBatchStartTransaction(h)
    \/ \E h \in DOMAIN handler : AddBatchInsert(h)
    \/ \E h \in DOMAIN handler : AddBatchCommit(h)
    \/ \E h \in DOMAIN handler : AddBatchLock(h)

DispatchSpec == DispatchInit /\ [][DispatchNext]_vars

(***************************************************************************)
(* A watcher that answers with more chunks than max_chunks.                *)
(***************************************************************************)
\* Answers whose priority operations sum to more than max_block_size_chunks.
OverrunAnswers ==
    {ops \in SeqsUpTo({DepositOpCHUNKS}, MaxOverrunOps) : SumSeq(ops) > MaxBlockSizeChunks}

\* select_priority_ops with such an answer: self.max_block_size_chunks - sum is a
\* subtraction of usize with overflow.  A build with overflow checks panics
\* there and the task ends; a build without them (the release profile) wraps
\* around, and chunks_left is 2^64 - (sum - max_block_size_chunks).
SelectPriorityOpsOverrun ==
    /\ blocks_task.pc = "select_priority_ops"
    /\ \E priority_ops \in OverrunAnswers, overflow_checks \in BOOLEAN :
         blocks_task' = [blocks_task EXCEPT
                            !.pc = IF overflow_checks THEN "panicked"
                                   ELSE "prepare_tx_for_block",
                            !.chunks_left = IF overflow_checks THEN 0
                                            ELSE priority_chunks_left(priority_ops),
                            !.priority_ops = priority_ops]
    /\ UNCHANGED <<restarts, mem, mutex, db, tx_requests, requests_sent, replies, balancer,
                   channels, handler, block_requests, block_sent, proposed>>

OverrunNext == Next \/ SelectPriorityOpsOverrun

OverrunSpec == Init /\ [][OverrunNext]_vars

(***************************************************************************)
(* Shutdown: the inbound channels dropped by their senders.                *)
(***************************************************************************)
\* The API drops its senders of the admission channel.
DropTxSenders ==
    /\ ~senders_dropped(tx_requests)
    /\ tx_requests' = Append(tx_requests, TxStreamEnd)
    /\ UNCHANGED <<restarts, mem, mutex, db, requests_sent, replies, balancer, channels,
                   handler, block_requests, block_sent, blocks_task, proposed>>

\* The block proposer and the committer drop their senders of block_requests.
DropBlockSenders ==
    /\ ~senders_dropped(block_requests)
    /\ block_requests' = Append(block_requests, BlockStreamEnd)
    /\ UNCHANGED <<restarts, mem, mutex, db, tx_requests, requests_sent, replies, balancer,
                   channels, handler, block_sent, blocks_task, proposed>>

\* Balancer::run: self.requests.next().await yields None, the loop ends, and
\* self is dropped with the senders of the handlers' channels.
BalancerExit ==
    /\ balancer.pc = "next"
    /\ tx_requests # <<>>
    /\ Head(tx_requests).type = "Closed"
    /\ balancer' = [balancer EXCEPT !.pc = "exited"]
    /\ channels' = [h \in DOMAIN channels |-> Append(channels[h], TxStreamEnd)]
    /\ UNCHANGED <<restarts, mem, mutex, db, tx_requests, requests_sent, replies, handler,
                   block_requests, block_sent, blocks_task, proposed>>

\* MempoolTransactionsHandler::run: self.requests.next().await yields None.
HandlerExit(h) ==
    /\ handler[h].pc = "next"
    /\ channels[h] # <<>>
    /\ Head(channels[h]).type = "Closed"
    /\ handler' = [handler EXCEPT ![h].pc = "exited"]
    /\ UNCHANGED <<restarts, mem, mutex, db, tx_requests, requests_sent, replies, balancer,
                   channels, block_requests, block_sent, blocks_task, proposed>>

\* MempoolBlocks::run: self.requests.next().await yields None.
BlocksExit ==
    /\ blocks_task.pc = "next"
    /\ block_requests # <<>>
    /\ Head(block_requests).type = "Closed"
    /\ blocks_task' = [blocks_task EXCEPT !.pc = "exited"]
    /\ UNCHANGED <<restarts, mem, mutex, db, tx_requests, requests_sent, replies, balancer,
                   channels, handler, block_requests, block_sent, proposed>>

ShutdownNext ==
    \/ Next
    \/ DropTxSenders
    \/ DropBlockSenders
    \/ BalancerExit
    \/ \E h \in Handlers : HandlerExit(h)
    \/ BlocksExit

ShutdownSpec == Init /\ [][ShutdownNext]_vars

\* The executor runs every task that can make a step, the step out of its loop
\* included.
FairShutdownSpec ==
    /\ ShutdownSpec
    /\ WF_vars(BalancerStep \/ BalancerExit)
    /\ \A h \in Handlers : WF_vars(HandlerStep(h) \/ HandlerExit(h))
    /\ WF_vars(BlocksStep \/ BlocksExit)

(***************************************************************************)
(* The node stopped and started again.                                     *)
(***************************************************************************)
\* The entries of the first k proposed blocks: those the node has executed.
ExecutedRids(k) == UNION {Rids(proposed[j].txs) : j \in 1 .. k}

\* The process ends and run_mempool_tasks runs again: requests in flight and the
\* state in memory are lost, restore_from_db builds the state from the committed
\* accounts and from the rows collect_garbage leaves, and the tasks start anew.
\* The replies and blocks already sent stay with those who received them.
Restart ==
    /\ restarts < MaxRestarts
    /\ \E accounts \in InitAccounts, k \in 0 .. Len(proposed), drop_stale \in BOOLEAN :
         LET rows == collect_garbage(db, ExecutedRids(k), Replied("NonceMismatch"),
                                     drop_stale)
             st == restore_from_db(accounts, load_txs(rows))
         IN  /\ db' = rows
             /\ account_nonces' = st.account_nonces
             /\ account_ids' = st.account_ids
             /\ ready_txs' = st.ready_txs
    /\ mutex' = "free"
    /\ tx_requests' = <<>>
    /\ block_requests' = <<>>
    /\ channels' = [h \in Handlers |-> <<>>]
    /\ handler' = [h \in Handlers |-> Idle]
    /\ balancer' = [BalancerIdle EXCEPT !.sent_to = balancer.sent_to]
    /\ blocks_task' = BlocksIdle
    /\ restarts' = restarts + 1
    /\ UNCHANGED <<requests_sent, replies, block_sent, proposed>>

RestartNext == Next \/ Restart

RestartSpec == Init /\ [][RestartNext]_vars

(***************************************************************************)
(* Properties.                                                             *)
(***************************************************************************)
\* Chunks of a proposed block, its transactions costed against nonces.
block_chunks(nonces, block) ==
    SumSeq(block.priority_ops)
      + SumSeq([i \in 1 .. Len(block.txs) |-> required_chunks(nonces, block.txs[i])])

\* C1 (chunk budget): whenever a GetBlock is answered, the chunks of the returned
\* priority ops plus the required_chunks of the returned variants, evaluated
\* against account_nonces as they are when the block is assembled, are at most
\* max_block_size_chunks.
ChunkBudget ==
    [][Len(proposed') > Len(proposed) =>
          block_chunks(account_nonces, proposed'[Len(proposed')]) <= MaxBlockSizeChunks]_vars

\* A block was returned that holds priority ops and transactions and uses more
\* than half of the budget.
ChunkBudgetWitness ==
    \E k \in 1 .. Len(proposed) :
        /\ proposed[k].priority_ops # <<>>
        /\ proposed[k].txs # <<>>
        /\ blocks_task.pc = "next"
        /\ 2 * block_chunks(account_nonces, proposed[k]) > MaxBlockSizeChunks

\* C2 (batch atomicity): a batch whose rows are committed occurs in the proposed
\* blocks at most once, there with all its members in order, and then no part of
\* it is left in the ready queue; its members are never spread over two blocks.
BatchAtomicity ==
    \A r \in 1 .. Len(db) :
        db[r].type = "Batch" =>
            LET occ == {<<k, j>> \in (1 .. Len(proposed)) \X (1 .. MaxTraffic) :
                           /\ j <= Len(proposed[k].txs)
                           /\ proposed[k].txs[j].rid = db[r].rid}
            IN  /\ Cardinality(occ) <= 1
                /\ \A o \in occ : proposed[o[1]].txs[o[2]] = db[r]
                /\ occ # {} => db[r].rid \notin Rids(ready_txs)
                /\ \A i \in 1 .. Len(ready_txs) :
                      ready_txs[i].rid = db[r].rid => ready_txs[i] = db[r]

\* A batch of several members was returned in a block, and another batch that
\* did not fit is still whole in the ready queue.
BatchAtomicityWitness ==
    /\ \E k \in 1 .. Len(proposed) : \E j \in 1 .. Len(proposed[k].txs) :
          /\ proposed[k].txs[j].type = "Batch"
          /\ Len(proposed[k].txs[j].txs) > 1
    /\ \E i \in 1 .. Len(ready_txs) :
          /\ ready_txs[i].type = "Batch"
          /\ Len(ready_txs[i].txs) > 1

\* Every member of the request has a nonce >= nonce(sender).
NoncesNotBelow(nonces, req) ==
    \A i \in 1 .. Len(req.txs) : req.txs[i].nonce >= nonce(nonces, req.txs[i].from)

\* C3 (admission nonce rule): the critical section that ends a NewTx or a
\* NewTxsBatch replies Ok only if every member has nonce >= nonce(sender) against
\* the account_nonces of that critical section; if some member is below, it replies
\* NonceMismatch and leaves the ready queue as it was; an entry replied
\* NonceMismatch is in no ready queue and in no proposed block.
AdmissionNonceRule ==
    [][/\ \A h \in Handlers :
             (handler[h].pc \in AddPcs /\ handler'[h] # handler[h]) =>
                 LET req == handler[h].req
                 IN  /\ req.rid \in DOMAIN replies'
                     /\ replies'[req.rid] = "Ok" => NoncesNotBelow(account_nonces, req)
                     /\ ~NoncesNotBelow(account_nonces, req) =>
                            /\ replies'[req.rid] = "NonceMismatch"
                            /\ ready_txs' = ready_txs
       /\ \A rid \in DOMAIN replies' :
             replies'[rid] = "NonceMismatch" =>
                 /\ rid \notin Rids(ready_txs')
                 /\ \A k \in 1 .. Len(proposed') : rid \notin Rids(proposed'[k].txs)]_vars

\* One admission was replied NonceMismatch, and a transaction whose nonce equals
\* the recorded nonce of its sender was replied Ok and has been proposed in a block.
AdmissionNonceRuleWitness ==
    /\ Replied("NonceMismatch") # {}
    /\ \E k \in 1 .. Len(proposed) : \E j \in 1 .. Len(proposed[k].txs) :
          LET v == proposed[k].txs[j]
          IN  /\ v.rid \in Replied("Ok")
              /\ v.txs # <<>>
              /\ v.txs[1].nonce = nonce(account_nonces, v.txs[1].from)
              /\ v.txs[1].nonce > 0

NonceNeverDecreases ==
    [][\A a \in Addresses : nonce(account_nonces', a) >= nonce(account_nonces, a)]_vars

\* C7 as amended: nonce(A) is lowered only by the update being applied, and only
\* when that update is a Delete of A or carries for A a nonce below the recorded
\* one; an update that is not a Delete and delivers a nonce >= the recorded one
\* never lowers it.
NonceDecreasesOnlyByDeleteOrLowerNonce ==
    [][\A a \in Addresses :
          nonce(account_nonces', a) < nonce(account_nonces, a) =>
              /\ blocks_task.pc = "updates"
              /\ LET u == Head(blocks_task.updates)
                 IN  \/ u.kind = "Delete" /\ u.address = a
                     \/ /\ u.kind = "Create"
                        /\ u.address = a
                        /\ u.nonce < nonce(account_nonces, a)
                     \/ /\ u.kind \in {"UpdateBalance", "ChangePubKeyHash"}
                        /\ u.id \in DOMAIN account_ids
                        /\ account_ids[u.id] = a
                        /\ u.nonce < nonce(account_nonces, a)]_vars

\* The nonce of B, which was 1 when the node started with B committed, has been
\* lowered to 0 by the updates while account 2 is (again) recorded for B.
NonceDecreasesOnlyWitness ==
    /\ DOMAIN account_nonces = {"B"}
    /\ account_nonces["B"] = 0
    /\ 2 \in DOMAIN account_ids
    /\ blocks_task.pc = "next"

\* C8 (storage failure): a step of a handler before its final critical section
\* leaves account_nonces, account_ids and the ready queue as they were; a storage
\* step that ends the request (commit included, when it commits nothing) replies
\* DbError; DbError is replied only from a storage step, after which the handler
\* is back at the head of its loop and the request is in no channel (no retry) and
\* its entry in no ready queue.
DbErrorLeavesState ==
    [][\A h \in Handlers :
          handler'[h] # handler[h] =>
              LET req == handler[h].req
                  replied == req.rid \in DOMAIN replies' \ DOMAIN replies
              IN  /\ handler[h].pc \notin AddPcs => UNCHANGED mem
                  /\ (handler[h].pc \in StoragePcs /\ handler'[h].pc = "next") =>
                         replied /\ replies'[req.rid] = "DbError"
                  /\ (handler[h].pc \in CommitPcs /\ db' = db) =>
                         replied /\ replies'[req.rid] = "DbError"
                  /\ (replied /\ replies'[req.rid] = "DbError") =>
                         /\ handler[h].pc \in StoragePcs
                         /\ handler'[h] = Idle
                         /\ UNCHANGED <<mem, db, channels, tx_requests>>
                         /\ req.rid \notin Rids(ready_txs')]_vars

\* A batch was replied DbError while the ready queue holds an admitted entry.
DbErrorLeavesStateWitness ==
    /\ Replied("DbError") # {}
    /\ Replied("Ok") # {}
    /\ ready_txs # <<>>
    /\ Replied("DbError") \cap Rids(db) = {}

\* The GetBlock requests MempoolBlocks has received and not answered: those in
\* its channel and the one it is working on.
GetBlocksPending ==
    Cardinality({i \in 1 .. Len(block_requests) : block_requests[i].type = "GetBlock"})
      + (IF blocks_task.pc \in {"select_priority_ops", "prepare_tx_for_block"}
         THEN 1 ELSE 0)

\* C4 as claimed: every GetBlock received is eventually answered with a
\* ProposedBlock: once n GetBlocks have been received, n blocks are eventually
\* proposed.
GetBlockEventuallyAnswered ==
    \A n \in 1 .. MaxTraffic :
        (Len(proposed) + GetBlocksPending >= n) ~> (Len(proposed) >= n)

\* C5 as claimed: the step that handles UpdateBalance or ChangePubKeyHash for an
\* id present in account_ids completes the update (the loop moves on) and leaves
\* account_nonces[account_ids[id]] = new_nonce, account_ids and the ready queue
\* unchanged.
KnownIdNonceUpdated ==
    [][(/\ blocks_task.pc = "updates"
        /\ Head(blocks_task.updates).kind \in {"UpdateBalance", "ChangePubKeyHash"}
        /\ Head(blocks_task.updates).id \in DOMAIN account_ids
        /\ blocks_task' # blocks_task) =>
           LET u == Head(blocks_task.updates)
               address == account_ids[u.id]
           IN  /\ blocks_task' = AfterUpdate(Tail(blocks_task.updates))
               /\ address \in DOMAIN account_nonces'
               /\ account_nonces'[address] = u.nonce
               /\ account_ids' = account_ids
               /\ ready_txs' = ready_txs
               /\ mutex' = "free"]_vars

\* C9 as claimed: a NewTxsBatch with an empty list is replied EmptyBatch by the
\* step that takes it from the channel, before any storage operation is started,
\* and no batch without members is ever committed or put in the ready queue.
EmptyBatchRejected ==
    [][/\ \A h \in Handlers :
             (/\ handler[h].pc = "next"
              /\ handler'[h] # handler[h]
              /\ Head(channels[h]).type = "NewTxsBatch"
              /\ Head(channels[h]).txs = <<>>) =>
                 /\ Head(channels[h]).rid \in DOMAIN replies'
                 /\ replies'[Head(channels[h]).rid] = "EmptyBatch"
                 /\ handler'[h].pc = "next"
       /\ \A i \in 1 .. Len(ready_txs') : ready_txs'[i].txs # <<>>
       /\ \A r \in 1 .. Len(db') : db'[r].txs # <<>>]_vars

\* C10 (BatchTooBig): when the check of add_batch finds chunks_for_batch, against
\* the account_nonces of that critical section, above max_block_size_chunks, the
\* request is replied BatchTooBig in that step, with no storage write and the
\* ready queue unchanged; a request replied BatchTooBig has no row and no entry.
BatchTooBigRejected ==
    [][/\ \A h \in Handlers :
             (/\ handler[h].pc = "batch_check"
              /\ handler'[h] # handler[h]
              /\ chunks_for_batch(account_nonces, handler[h].req.txs)
                    > MaxBlockSizeChunks) =>
                 /\ handler[h].req.rid \in DOMAIN replies'
                 /\ replies'[handler[h].req.rid] = "BatchTooBig"
                 /\ handler'[h] = Idle
                 /\ UNCHANGED <<mem, db>>
       /\ \A rid \in DOMAIN replies' :
             replies'[rid] = "BatchTooBig" =>
                 /\ rid \notin Rids(db')
                 /\ rid \notin Rids(ready_txs')
                 /\ \A k \in 1 .. Len(proposed') : rid \notin Rids(proposed'[k].txs)]_vars

\* A batch was replied BatchTooBig while the recipient of its transfers was
\* unknown, and a later batch was admitted once the recipient was known.
BatchTooBigRejectedWitness ==
    /\ Replied("BatchTooBig") # {}
    /\ \E i \in 1 .. Len(ready_txs) :
          /\ ready_txs[i].type = "Batch"
          /\ Len(ready_txs[i].txs) > 2
          /\ \E rid \in Replied("BatchTooBig") : rid < ready_txs[i].rid

\* C11 (BatchWithdrawalsOverload): when the check of add_batch finds a batch
\* within the chunk budget that holds more withdrawals than
\* max_number_of_withdrawals_per_block, the request is replied
\* BatchWithdrawalsOverload in that step, with no storage write and the ready
\* queue unchanged; a batch within the budget with at most that many withdrawals
\* passes the check (it is not replied in that step); a request replied
\* BatchWithdrawalsOverload has no row and no entry.
WithdrawalsOverloadRejected ==
    [][/\ \A h \in Handlers :
             (/\ handler[h].pc = "batch_check"
              /\ handler'[h] # handler[h]
              /\ chunks_for_batch(account_nonces, handler[h].req.txs)
                    <= MaxBlockSizeChunks) =>
                 IF number_of_withdrawals(handler[h].req.txs)
                       > MaxNumberOfWithdrawalsPerBlock
                 THEN /\ handler[h].req.rid \in DOMAIN replies'
                      /\ replies'[handler[h].req.rid] = "BatchWithdrawalsOverload"
                      /\ handler'[h] = Idle
                      /\ UNCHANGED <<mem, db>>
                 ELSE /\ handler[h].req.rid \notin DOMAIN replies'
                      /\ handler'[h].pc = "batch_start_transaction"
       /\ \A rid \in DOMAIN replies' :
             replies'[rid] = "BatchWithdrawalsOverload" =>
                 /\ rid \notin Rids(db')
                 /\ rid \notin Rids(ready_txs')
                 /\ \A k \in 1 .. Len(proposed') : rid \notin Rids(proposed'[k].txs)]_vars

\* A batch of two withdrawals was replied BatchWithdrawalsOverload, and a batch
\* with exactly max_number_of_withdrawals_per_block withdrawals was admitted.
WithdrawalsOverloadRejectedWitness ==
    /\ Replied("BatchWithdrawalsOverload") # {}
    /\ \E i \in 1 .. Len(ready_txs) :
          /\ ready_txs[i].type = "Batch"
          /\ number_of_withdrawals(ready_txs[i].txs) = MaxNumberOfWithdrawalsPerBlock
          /\ ready_txs[i].rid \in Replied("Ok")

\* The requests among the a-th to the b-th of the record that went to worker w.
SentInWindow(a, b, w) ==
    Cardinality({i \in a .. b : balancer.sent_to[i].to = w})

\* C12 (round robin): the i-th request taken from the admission channel, i counted
\* from 0, is sent on channel i mod N, N the number of channels, whether or not
\* the send succeeds; so in every window of K >= N consecutive requests each
\* worker is sent floor(K/N) or ceil(K/N) of them.
RoundRobin ==
    LET N == channels_len
        sent == balancer.sent_to
    IN  /\ \A i \in 1 .. Len(sent) : sent[i].rid = i /\ sent[i].to = (i - 1) % N
        /\ balancer.pc = "send" =>
              /\ balancer.req.rid = Len(sent) + 1
              /\ balancer.target = Len(sent) % N
        /\ \A a, b \in 1 .. Len(sent) :
              b - a + 1 >= N =>
                  \A w \in 0 .. (N - 1) :
                      SentInWindow(a, b, w) \in {(b - a + 1) \div N,
                                                (b - a + N) \div N}

\* With two workers, three requests have been sent in turn: the first to a
\* worker whose receiver was dropped, the second delivered, the third failed.
RoundRobinWitness ==
    /\ channels_len = 2
    /\ Len(balancer.sent_to) >= 3
    /\ ~balancer.sent_to[1].delivered
    /\ balancer.sent_to[2].delivered
    /\ ~balancer.sent_to[3].delivered

\* The worker a request was sent to by the Balancer.
WorkerOf(rid) ==
    balancer.sent_to[CHOOSE i \in 1 .. Len(balancer.sent_to) :
                        balancer.sent_to[i].rid = rid].to

\* The places of the ready queue that hold an entry a worker admitted (it was
\* replied Ok) and no block has taken.
AdmittedNotDrained ==
    {i \in 1 .. Len(ready_txs) :
        ready_txs[i].rid \in Replied("Ok") /\ ready_txs[i].rid \notin ProposedRids}

\* The place of an entry in a sequence of variants (0 when it is not there).
PlaceIn(variants, entry) ==
    IF \E i \in 1 .. Len(variants) : variants[i] = entry
    THEN CHOOSE i \in 1 .. Len(variants) : variants[i] = entry
    ELSE 0

RECURSIVE BlocksRidSeq(_)
BlocksRidSeq(blocks) ==
    IF blocks = <<>> THEN <<>>
    ELSE [i \in 1 .. Len(Head(blocks).txs) |-> Head(blocks).txs[i].rid]
            \o BlocksRidSeq(Tail(blocks))
OutOrder == BlocksRidSeq(proposed) \o [i \in 1 .. Len(ready_txs) |-> ready_txs[i].rid]

\* The place of rid in OutOrder (0 when it is not there).
OutPlace(rid) ==
    IF \E i \in 1 .. Len(OutOrder) : OutOrder[i] = rid
    THEN CHOOSE i \in 1 .. Len(OutOrder) : OutOrder[i] = rid
    ELSE 0

AllExited ==
    /\ balancer.pc = "exited"
    /\ \A h \in Handlers : handler[h].pc = "exited"
    /\ blocks_task.pc = "exited"

\* C16 as claimed: once the senders of the admission channel and of
\* block_requests are dropped, the Balancer, every handler and MempoolBlocks
\* eventually finish what is queued, find the end of their stream and exit.
ShutdownCompletes ==
    (senders_dropped(tx_requests) /\ senders_dropped(block_requests)) ~> AllExited

\* The required_chunks of the first n elements of a queue, together.
PrefixChunks(nonces, queue, n) ==
    SumSeq([i \in 1 .. n |-> required_chunks(nonces, queue[i])])

\* C17 (longest fitting prefix): with Q the ready queue when the block is
\* assembled and c the chunks left after the priority ops, the block's txs are
\* the longest prefix of Q whose required_chunks together are <= c, and the
\* ready queue afterwards is the rest of Q in the same order: the first element
\* that does not fit stays at the front and nothing behind it is taken.
LongestFittingPrefix ==
    [][Len(proposed') > Len(proposed) =>
          LET Q == ready_txs
              block == proposed'[Len(proposed')]
              c == MaxBlockSizeChunks - SumSeq(block.priority_ops)
              fits == {n \in 0 .. Len(Q) : PrefixChunks(account_nonces, Q, n) <= c}
              longest == CHOOSE n \in fits : \A m \in fits : m <= n
          IN  /\ fits # {}
              /\ block.txs = SubSeq(Q, 1, longest)
              /\ ready_txs' = SubSeq(Q, longest + 1, Len(Q))]_vars

\* A block was returned with a priority op and no transaction: the batch at the
\* front of the ready queue needs more than the chunks that were left, and the
\* transaction behind it, which would have fitted, was not taken.
LongestFittingPrefixWitness ==
    /\ Len(proposed) = 1
    /\ proposed[1].priority_ops # <<>>
    /\ proposed[1].txs = <<>>
    /\ blocks_task.pc = "next"
    /\ Len(ready_txs) = 2
    /\ required_chunks(account_nonces, ready_txs[1])
          > priority_chunks_left(proposed[1].priority_ops)
    /\ required_chunks(account_nonces, ready_txs[2])
          <= priority_chunks_left(proposed[1].priority_ops)

\* C18 as claimed: every Batch in the ready queue has batch_id > 0 and at least
\* one member.
ReadyBatchesWellFormed ==
    \A i \in 1 .. Len(ready_txs) :
        ready_txs[i].type = "Batch" =>
            ready_txs[i].batch_id > 0 /\ ready_txs[i].txs # <<>>

\* C19 as claimed: no task is suspended while it holds the lock of
\* mempool_state (every state of the model has each task at a suspension
\* point), and none waits for the lock while it holds it.
NoSuspensionUnderLock ==
    /\ mutex = "free"
    /\ blocks_task.pc # "relock"

\* The positions of add_batch behind its two checks.
PastBatchCheckPcs == {"batch_start_transaction", "batch_insert", "batch_commit"}

\* C20 as claimed: DbError is replied to a NewTxsBatch only past the two checks
\* of add_batch, and a batch with more withdrawals than
\* max_number_of_withdrawals_per_block, which fails a check whatever the nonce
\* map is, is replied BatchTooBig or BatchWithdrawalsOverload, never DbError.
ChecksBeforeStorage ==
    [][\A h \in Handlers :
          LET req == handler[h].req
          IN  (/\ req.type = "NewTxsBatch"
               /\ req.rid \in DOMAIN replies' \ DOMAIN replies) =>
                  /\ replies'[req.rid] = "DbError" => handler[h].pc \in PastBatchCheckPcs
                  /\ number_of_withdrawals(req.txs) > MaxNumberOfWithdrawalsPerBlock =>
                        replies'[req.rid] \in {"BatchTooBig", "BatchWithdrawalsOverload"}]_vars

\* C21 as claimed: when the watcher answers with priority ops whose chunks sum
\* to more than max_block_size_chunks, MempoolBlocks ends there, with no
\* ProposedBlock sent and the ready queue as it was; chunks_left is never a
\* wrapped-around value, and no block is ever sent with such priority ops.
WatcherOverrunIsFatal ==
    [][/\ (/\ blocks_task.pc = "select_priority_ops"
            /\ blocks_task' # blocks_task
            /\ SumSeq(blocks_task'.priority_ops) > MaxBlockSizeChunks) =>
               /\ blocks_task'.pc = "panicked"
               /\ UNCHANGED <<ready_txs, proposed>>
       /\ blocks_task'.chunks_left \in 0 .. MaxBlockSizeChunks
       /\ Len(proposed') > Len(proposed) =>
             /\ SumSeq(proposed'[Len(proposed')].priority_ops) <= MaxBlockSizeChunks
             /\ blocks_task.chunks_left \in 0 .. MaxBlockSizeChunks]_vars

\* The entries of the proposed blocks, block after block.
RECURSIVE BlocksEntries(_)
BlocksEntries(blocks) ==
    IF blocks = <<>> THEN <<>> ELSE Head(blocks).txs \o BlocksEntries(Tail(blocks))

ReadyBatchesFitBlock ==
    \A i \in 1 .. Len(ready_txs) :
        ready_txs[i].type = "Batch" =>
            chunks_for_batch(account_nonces, ready_txs[i].txs) <= MaxBlockSizeChunks

====
